---- MODULE Spec2Model ----
(***************************************************************************)
(* Model of scripts/merge_migrations.py: the comment filter, the marker    *)
(* driven section extractor and the document assembler.                    *)
(*                                                                         *)
(* A text is a sequence of tokens.  "NL" is the newline character, "SP" a  *)
(* blank, every other token stands for one fixed literal of the script (a  *)
(* marker, an anchor, a line of a fixed block) or for other text ("x").    *)
(* Substring search, slicing, split, join and replace work on the tokens   *)
(* as Python's str methods work on characters.                             *)
(***************************************************************************)
EXTENDS Integers, Sequences, FiniteSets, TLC

\* pc: the statement main is at; schema_file, microfixes_file: the two files
\* on disk; initial_schema, sections, merged, output: the locals of main;
\* runs: how often the script has been started; original_schema: a history
\* variable, the schema file as it was before the first run.
VARIABLES pc, schema_file, microfixes_file, initial_schema, sections, merged,
          output, runs, original_schema

vars == <<pc, schema_file, microfixes_file, initial_schema, sections, merged,
          output, runs, original_schema>>

NL == "NL"
SP == "SP"

\* ------------------------------------------------------------------ bounds
MaxOverlayLines == 4
MaxBaseChunks == 4
MaxBaseLines == 3
MaxRerunChunks == 2
MaxRuns == 2

\* ------------------------------------------------------- Python str methods
\* p occurs in s at the 0-based offset k
OccursAt(s, p, k) == \A j \in 1..Len(p) : s[k + j] = p[j]

\* str.find(p): the 0-based offset of the first occurrence, -1 when absent
Find(s, p) ==
  LET last == Len(s) - Len(p)
  IN  IF \E k \in 0..last : OccursAt(s, p, k)
      THEN CHOOSE k \in 0..last :
             OccursAt(s, p, k) /\ \A j \in 0..(k - 1) : ~OccursAt(s, p, j)
      ELSE -1

\* p in s
Contains(s, p) == Find(s, p) # -1

\* a bound that clamps a negative offset to the start instead of wrapping
SliceBoundNoWrap(n, k) == IF k < 0 THEN 0 ELSE IF k > n THEN n ELSE k

\* one bound of a slice: a negative bound counts from the end, then clamps
SliceBound(n, k) ==
  LET j == IF k < 0 THEN k + n ELSE k
  IN  IF j < 0 THEN 0 ELSE IF j > n THEN n ELSE j

\* s[lo:hi]
PySlice(s, lo, hi) == SubSeq(s, SliceBound(Len(s), lo) + 1, SliceBound(Len(s), hi))

\* s[:hi]
SliceTo(s, hi) == PySlice(s, 0, hi)

\* s[lo:]
SliceFrom(s, lo) == SubSeq(s, SliceBound(Len(s), lo) + 1, Len(s))

RECURSIVE Split(_)
\* s.split('\n')
Split(s) ==
  LET k == Find(s, <<NL>>)
  IN  IF k = -1 THEN <<s>>
      ELSE <<SubSeq(s, 1, k)>> \o Split(SubSeq(s, k + 2, Len(s)))

RECURSIVE Join(_)
\* '\n'.join(ls)
Join(ls) ==
  IF ls = <<>> THEN <<>>
  ELSE IF Len(ls) = 1 THEN ls[1]
  ELSE ls[1] \o <<NL>> \o Join(Tail(ls))

RECURSIVE Replace(_, _, _)
\* s.replace(old, new): every non-overlapping occurrence, left to right
Replace(s, old, new) ==
  LET k == Find(s, old)
  IN  IF k = -1 THEN s
      ELSE SubSeq(s, 1, k) \o new
           \o Replace(SubSeq(s, k + Len(old) + 1, Len(s)), old, new)

RECURSIVE Concat(_)
\* ''.join(parts)
Concat(parts) ==
  IF parts = <<>> THEN <<>> ELSE Head(parts) \o Concat(Tail(parts))

\* ----------------------------------------------- extract_security_additions
None == "None"

SectionNames == {"role_creation", "revoke_create", "public_rpcs", "indexes",
                 "owner_changes", "revoke_execute"}

RangeSections == SectionNames \ {"revoke_create"}

EmptySections == [n \in SectionNames |-> <<>>]

\* content = microfixes_content.replace('BEGIN;', '').replace('COMMIT;', '')
StripTransaction(content) == Replace(Replace(content, <<"BEGIN;">>, <<>>), <<"COMMIT;">>, <<>>)

\* the literals the scan looks for
RoleStart == <<"IF NOT EXISTS (SELECT 1 FROM pg_roles WHERE rolname = 'app_definer')">>
GrantSeq == <<"GRANT USAGE, SELECT ON ALL SEQUENCES">>
AlterRole == <<"ALTER ROLE app_definer">>
AlterRoleBypass == <<"ALTER ROLE app_definer", " WITH BYPASSRLS">>
RevokeCreate == <<"REVOKE CREATE ON SCHEMA public FROM PUBLIC">>
RevokeExecStart == <<"REVOKE EXECUTE ON ALL FUNCTIONS IN SCHEMA public FROM PUBLIC">>
RevokeExecEnd == <<"GRANT EXECUTE ON FUNCTION public.can_access_event">>
RpcStart == <<"CREATE OR REPLACE FUNCTION public.rpc_public_get_event">>
RpcEnd == <<"GRANT EXECUTE ON FUNCTION public.rpc_public_get_connect_account">>
IndexStart == <<"CREATE INDEX IF NOT EXISTS idx_payments_attendance_status">>
IndexEnd == <<"CREATE INDEX IF NOT EXISTS idx_settlements_event_created">>
OwnerStartA == <<"ALTER FUNCTION public.generate_settlement_report">>
OwnerStartB == <<"OWNER TO app_definer">>
OwnerEnd == <<"ALTER FUNCTION public.rpc_public_get_connect_account">>

\* whether a line opens / closes a range section
IsStart(name, line) ==
  CASE name = "role_creation" -> Contains(line, RoleStart)
    [] name = "revoke_execute" -> Contains(line, RevokeExecStart)
    [] name = "public_rpcs" -> Contains(line, RpcStart)
    [] name = "indexes" -> Contains(line, IndexStart)
    [] name = "owner_changes" -> Contains(line, OwnerStartA) /\ Contains(line, OwnerStartB)

IsEnd(name, line) ==
  CASE name = "role_creation" -> Contains(line, AlterRoleBypass)
    [] name = "revoke_execute" -> Contains(line, RevokeExecEnd)
    [] name = "public_rpcs" -> Contains(line, RpcEnd)
    [] name = "indexes" -> Contains(line, IndexEnd)
    [] name = "owner_changes" -> Contains(line, OwnerEnd)

\* A scan state is [cur, buf, sec]: current_section, buffer, sections.
\* a commit that forgets the closing line
CommitBufferOnly(st, name, line) ==
  [cur |-> None, buf |-> <<>>, sec |-> [st.sec EXCEPT ![name] = Join(st.buf)]]

\* buffer.append(line); sections[name] = '\n'.join(buffer); cursor and buffer reset
Commit(st, name, line) ==
  [cur |-> None, buf |-> <<>>,
   sec |-> [st.sec EXCEPT ![name] = Join(Append(st.buf, line))]]

\* a chain that ignores a start marker met while another section is collected
RangeChainNoPreempt(st, name, line) ==
  IF IsStart(name, line) /\ st.cur \in {None, name}
  THEN [st EXCEPT !.cur = name, !.buf = <<line>>]
  ELSE IF st.cur = name /\ IsEnd(name, line) THEN Commit(st, name, line)
  ELSE IF st.cur = name THEN [st EXCEPT !.buf = Append(@, line)]
  ELSE st

\* the if / elif / elif chain of one range section
RangeChain(st, name, line) ==
  IF IsStart(name, line) THEN [st EXCEPT !.cur = name, !.buf = <<line>>]
  ELSE IF st.cur = name /\ IsEnd(name, line) THEN Commit(st, name, line)
  ELSE IF st.cur = name THEN [st EXCEPT !.buf = Append(@, line)]
  ELSE st

\* the chain of role_creation, whose middle branch also takes the grant and
\* alter-role lines and commits only on the BYPASSRLS line
RoleChain(st, line) ==
  IF IsStart("role_creation", line)
  THEN [st EXCEPT !.cur = "role_creation", !.buf = <<line>>]
  ELSE IF st.cur = "role_creation"
          /\ (Contains(line, GrantSeq) \/ Contains(line, AlterRole))
  THEN IF Contains(line, AlterRoleBypass)
       THEN Commit(st, "role_creation", line)
       ELSE [st EXCEPT !.buf = Append(@, line)]
  ELSE IF st.cur = "role_creation" THEN [st EXCEPT !.buf = Append(@, line)]
  ELSE st

\* the single-line section
RevokeCreateChain(st, line) ==
  IF Contains(line, RevokeCreate)
  THEN [st EXCEPT !.sec = [@ EXCEPT !["revoke_create"] = line]]
  ELSE st

\* one iteration of the loop: the six chains in the order of the code
ExtractStep(st, line) ==
  LET s1 == RoleChain(st, line)
      s2 == RevokeCreateChain(s1, line)
      s3 == RangeChain(s2, "revoke_execute", line)
      s4 == RangeChain(s3, "public_rpcs", line)
      s5 == RangeChain(s4, "indexes", line)
  IN  RangeChain(s5, "owner_changes", line)

ScanInit == [cur |-> None, buf |-> <<>>, sec |-> EmptySections]

RECURSIVE Scan(_, _)
\* the scan state after the first k lines; the cursor is None or a section name
Scan(ls, k) ==
  IF k = 0 THEN ScanInit
  ELSE LET prev == Scan(ls, k - 1)
       IN  CASE prev.cur \in SectionNames \cup {None} -> ExtractStep(prev, ls[k])

\* a return that first commits what is still buffered
ReturnSectionsFlushing(st) ==
  IF st.cur = None THEN st.sec ELSE [st.sec EXCEPT ![st.cur] = Join(st.buf)]

\* return sections
ReturnSections(st) == st.sec

\* the whole function
ExtractSecurityAdditions(content) ==
  LET ls == Split(StripTransaction(content))
  IN  ReturnSections(Scan(ls, Len(ls)))

\* -------------------------------------------------- remove_verbose_comments
Removed == <<"-- Removed:">>
RemoveDefault == <<"-- Remove default">>
\* stands for the literal '-- ' followed by the two characters of the
\* Japanese word for "correction" and a colon
FixNote == <<"-- correction:">>
Refunded == <<"refunded">>

RECURSIVE LStrip(_)
LStrip(s) == IF s # <<>> /\ Head(s) = SP THEN LStrip(Tail(s)) ELSE s

RECURSIVE RStrip(_)
RStrip(s) ==
  IF s # <<>> /\ s[Len(s)] = SP THEN RStrip(SubSeq(s, 1, Len(s) - 1)) ELSE s

\* line.strip()
Strip(s) == RStrip(LStrip(s))

\* s.startswith(p)
StartsWith(s, p) == Len(s) >= Len(p) /\ SubSeq(s, 1, Len(p)) = p

\* the two tests without the strip()
SkippedUntrimmed(line) ==
  \/ StartsWith(line, Removed)
  \/ StartsWith(line, RemoveDefault)
  \/ (Contains(line, FixNote) /\ ~Contains(line, Refunded))

\* the two `continue` tests of the loop
Skipped(line) ==
  \/ StartsWith(Strip(line), Removed)
  \/ StartsWith(Strip(line), RemoveDefault)
  \/ (Contains(line, FixNote) /\ ~Contains(line, Refunded))

Kept(line) == ~Skipped(line)

RemoveVerboseComments(content) == Join(SelectSeq(Split(content), Kept))

\* --------------------------------------------------------------- main
\* the anchors searched in the filtered schema (written without the double
\* quotes the literals put around public and the names)
TypeAnchor == <<"CREATE TYPE public.actor_type_enum">>
GrantPostgres == <<"GRANT USAGE ON SCHEMA public TO postgres;">>
GrantAnon == <<"GRANT USAGE ON SCHEMA public TO anon;">>
GrantAuthenticated == <<"GRANT USAGE ON SCHEMA public TO authenticated;">>
AlterDefault == <<"ALTER DEFAULT PRIVILEGES">>
ResetAll == <<"RESET ALL;">>

\* the first and the second argument of grant_section.replace
StaleGrants ==
  GrantPostgres \o <<NL>> \o Removed \o <<" anon schema USAGE; access via RPC only", NL>>
  \o GrantAuthenticated
FixedGrants == GrantPostgres \o <<NL>> \o GrantAnon \o <<NL>> \o GrantAuthenticated

\* the fixed literals main appends
HardeningHeader ==
  <<NL, "-- Security hardening: app_definer role and schema access control", NL>>
RevokeHeader ==
  <<NL, "-- Security: Revoke default function execute, add public-safe RPCs", NL>>
IndexHeader == <<"-- Performance indexes", NL>>
RpcGrants ==
  <<NL, NL, "-- Public RPC grants for anon role", NL,
    "GRANT EXECUTE ON FUNCTION public.rpc_public_get_event(text) TO anon, authenticated;", NL,
    "GRANT EXECUTE ON FUNCTION public.rpc_public_attending_count(uuid) TO anon, authenticated;", NL,
    "GRANT EXECUTE ON FUNCTION public.rpc_guest_get_attendance() TO anon, authenticated;", NL,
    "GRANT EXECUTE ON FUNCTION public.rpc_public_check_duplicate_email(uuid, text) TO anon, authenticated;", NL,
    "GRANT EXECUTE ON FUNCTION public.rpc_guest_get_latest_payment(uuid) TO anon, authenticated;", NL,
    "GRANT EXECUTE ON FUNCTION public.rpc_public_get_connect_account(uuid, uuid) TO anon, authenticated;", NL>>
OwnerHeader ==
  <<NL, "-- Align SECURITY DEFINER function ownership to app_definer", NL>>
AdditionalOwners ==
  <<NL, "ALTER FUNCTION public.get_event_creator_name(uuid) OWNER TO app_definer;", NL,
    "ALTER FUNCTION public.admin_add_attendance_with_capacity_check(uuid, character varying, character varying, public.attendance_status_enum, character varying, boolean) OWNER TO app_definer;", NL,
    "ALTER FUNCTION public.get_guest_token() OWNER TO app_definer;", NL,
    "ALTER FUNCTION public.hash_guest_token(text) OWNER TO app_definer;", NL,
    "ALTER FUNCTION public.handle_new_user() OWNER TO app_definer;", NL,
    "ALTER FUNCTION public.prevent_payment_status_rollback() OWNER TO app_definer;", NL,
    "ALTER FUNCTION public.update_payment_version() OWNER TO app_definer;", NL,
    "ALTER FUNCTION public.update_revenue_summary(uuid) OWNER TO app_definer;", NL,
    "ALTER FUNCTION public.update_updated_at_column() OWNER TO app_definer;", NL>>
BlankLine == <<NL, NL>>

\* grant_section, lines 161-168
GrantSection(schema) ==
  Replace(PySlice(schema, Find(schema, GrantPostgres), Find(schema, AlterDefault)),
          StaleGrants, FixedGrants)

\* trigger_idx = merged[-1].find('RESET ALL;')
TriggerIdx(tail) == Find(tail, ResetAll)

\* an assembly that puts the public RPCs before the revoke-execute section
AssembleRpcsFirst(schema, sec) ==
  LET extension_end == Find(schema, TypeAnchor)
      grant_section_start == Find(schema, GrantPostgres)
      grant_section_end == Find(schema, AlterDefault)
      tail == SliceFrom(schema, grant_section_end)
      trigger_idx == TriggerIdx(tail)
  IN  << SliceTo(schema, extension_end), HardeningHeader, sec["revoke_create"],
         BlankLine \o sec["role_creation"], BlankLine,
         PySlice(schema, extension_end, grant_section_start),
         RevokeHeader, sec["public_rpcs"], BlankLine, sec["revoke_execute"], BlankLine,
         IndexHeader, sec["indexes"], BlankLine, GrantSection(schema), RpcGrants, <<NL>>,
         SliceTo(tail, trigger_idx), OwnerHeader, sec["owner_changes"],
         AdditionalOwners, BlankLine, SliceFrom(tail, trigger_idx) >>

\* lines 123-212: the list merged as it stands before the join
Assemble(schema, sec) ==
  LET extension_end == Find(schema, TypeAnchor)
      grant_section_start == Find(schema, GrantPostgres)
      grant_section_end == Find(schema, AlterDefault)
      tail == SliceFrom(schema, grant_section_end)
      trigger_idx == TriggerIdx(tail)
  IN  << SliceTo(schema, extension_end),
         HardeningHeader,
         sec["revoke_create"],
         BlankLine \o sec["role_creation"],
         BlankLine,
         PySlice(schema, extension_end, grant_section_start),
         RevokeHeader,
         sec["revoke_execute"],
         BlankLine,
         sec["public_rpcs"],
         BlankLine,
         IndexHeader,
         sec["indexes"],
         BlankLine,
         GrantSection(schema),
         RpcGrants,
         <<NL>>,
         SliceTo(tail, trigger_idx),
         OwnerHeader,
         sec["owner_changes"],
         AdditionalOwners,
         BlankLine,
         SliceFrom(tail, trigger_idx) >>

RECURSIVE LeadingNewlines(_)
LeadingNewlines(s) ==
  IF s # <<>> /\ Head(s) = NL THEN 1 + LeadingNewlines(Tail(s)) ELSE 0

RECURSIVE CollapseFourOnly(_)
\* the pattern without the open upper bound: each four newlines become three
CollapseFourOnly(s) ==
  LET k == Find(s, <<NL, NL, NL, NL>>)
  IN  IF k = -1 THEN s
      ELSE SubSeq(s, 1, k) \o <<NL, NL, NL>> \o CollapseFourOnly(SubSeq(s, k + 5, Len(s)))

RECURSIVE CollapseNewlines(_)
\* re.sub(r'\n{4,}', '\n\n\n', s): leftmost, greedy, non-overlapping
CollapseNewlines(s) ==
  LET k == Find(s, <<NL, NL, NL, NL>>)
  IN  IF k = -1 THEN s
      ELSE LET rest == SubSeq(s, k + 1, Len(s))
               r == LeadingNewlines(rest)
           IN  SubSeq(s, 1, k) \o <<NL, NL, NL>>
               \o CollapseNewlines(SubSeq(rest, r + 1, Len(rest)))

\* lines 114-118: read both files, filter the schema
MainFilter ==
  /\ pc = "start"
  /\ initial_schema' = RemoveVerboseComments(schema_file)
  /\ pc' = "filtered"
  /\ UNCHANGED <<schema_file, microfixes_file, sections, merged, output, runs,
                 original_schema>>

\* line 121: sections = extract_security_additions(microfixes)
MainExtract ==
  /\ pc = "filtered"
  /\ sections' = ExtractSecurityAdditions(microfixes_file)
  /\ pc' = "extracted"
  /\ UNCHANGED <<schema_file, microfixes_file, initial_schema, merged, output, runs,
                 original_schema>>

\* lines 123-212
MainAssemble ==
  /\ pc = "extracted"
  /\ merged' = Assemble(initial_schema, sections)
  /\ pc' = "assembled"
  /\ UNCHANGED <<schema_file, microfixes_file, initial_schema, sections, output, runs,
                 original_schema>>

\* lines 215-218: join, collapse the blank lines
MainCleanup ==
  /\ pc = "assembled"
  /\ output' = CollapseNewlines(Concat(merged))
  /\ pc' = "cleaned"
  /\ UNCHANGED <<schema_file, microfixes_file, initial_schema, sections, merged, runs,
                 original_schema>>

\* a run that leaves the schema file as it is
MainWriteNothing ==
  /\ pc = "cleaned"
  /\ pc' = "written"
  /\ UNCHANGED <<schema_file, microfixes_file, initial_schema, sections, merged, output,
                 runs, original_schema>>

\* lines 220-231: overwrite the schema file, print the summary
MainWrite ==
  /\ pc = "cleaned"
  /\ schema_file' = output
  /\ pc' = "written"
  /\ UNCHANGED <<microfixes_file, initial_schema, sections, merged, output, runs,
                 original_schema>>

NextMain == MainFilter \/ MainExtract \/ MainAssemble \/ MainCleanup \/ MainWrite

\* ------------------------------------------------ main on bounded documents
\* an overlay with all six sections, in the order of the real file, inside a
\* transaction
FullOverlay ==
  Join(<< <<"BEGIN;">>,
          RevokeCreate \o <<";">>,
          RoleStart,
          <<"x">>,
          AlterRoleBypass,
          RevokeExecStart,
          RevokeExecEnd,
          RpcStart,
          <<"x">>,
          RpcEnd,
          IndexStart,
          IndexEnd,
          OwnerStartA \o OwnerStartB,
          OwnerEnd \o OwnerStartB,
          <<"COMMIT;">> >>)

MainOverlays == { FullOverlay, <<>> }

\* the pieces the schema files are built of
BaseChunks == { TypeAnchor, GrantPostgres, StaleGrants, AlterDefault, ResetAll, BlankLine }

InitMain ==
  /\ pc = "start"
  /\ \E n \in 0..MaxBaseChunks : \E cs \in [1..n -> BaseChunks] : schema_file = Concat(cs)
  /\ microfixes_file \in MainOverlays
  /\ original_schema = schema_file
  /\ initial_schema = <<>>
  /\ sections = EmptySections
  /\ merged = <<>>
  /\ output = <<>>
  /\ runs = 1

SpecMain == InitMain /\ [][NextMain]_vars

\* ------------------------------------------------------ properties of main
Draft == Concat(merged)

\* the offsets of the anchors in the filtered schema (-1: absent); D is the
\* offset of the first RESET ALL; at or after anchor C
AnchorA == Find(initial_schema, TypeAnchor)
AnchorB == Find(initial_schema, GrantPostgres)
AnchorC == Find(initial_schema, AlterDefault)
AnchorD ==
  LET d == Find(SubSeq(initial_schema, AnchorC + 1, Len(initial_schema)), ResetAll)
  IN  IF d = -1 THEN -1 ELSE AnchorC + d

AnchorsInOrder ==
  /\ 0 <= AnchorA /\ AnchorA < AnchorB /\ AnchorB < AnchorC /\ AnchorC < AnchorD

\* base[lo:hi] for offsets that are present
Piece(lo, hi) == SubSeq(initial_schema, lo + 1, hi)

\* C1 as stated: the correction is applied exactly when the grant section of
\* the base document holds the three stale lines; then the output has the anon
\* grant between the postgres and the authenticated grant, otherwise the grant
\* section is emitted as sliced.
C1_CorrectionAppliedIffStale ==
  LET b == Find(original_schema, GrantPostgres)
      c == Find(original_schema, AlterDefault)
      baseGrants == SubSeq(original_schema, b + 1, c)
      sliced == PySlice(initial_schema, AnchorB, AnchorC)
  IN  (pc = "cleaned" /\ runs = 1 /\ 0 <= b /\ b < c) =>
        /\ (merged[15] # sliced) <=> Contains(baseGrants, StaleGrants)
        /\ Contains(baseGrants, StaleGrants) => Contains(output, FixedGrants)
        /\ ~Contains(baseGrants, StaleGrants) => merged[15] = sliced

\* C3: with the four anchors found in order the draft is base[:A], hardening
\* header, revoke_create, role_creation, base[A:B], revoke-execute header,
\* revoke_execute, public_rpcs, index header, indexes, the corrected base[B:C],
\* the execute grants, base[C:D], ownership header, owner_changes, the nine
\* ownership statements, base[D:], in this order, with the blank-line separators
\* of the code between them; the base pieces are the whole filtered base, once.
C3_DraftIsOrderedConcatenation ==
  (pc = "assembled" /\ AnchorsInOrder) =>
     /\ Draft =
          Piece(0, AnchorA) \o HardeningHeader \o sections["revoke_create"]
          \o BlankLine \o sections["role_creation"] \o BlankLine
          \o Piece(AnchorA, AnchorB) \o RevokeHeader \o sections["revoke_execute"]
          \o BlankLine \o sections["public_rpcs"] \o BlankLine
          \o IndexHeader \o sections["indexes"] \o BlankLine
          \o Replace(Piece(AnchorB, AnchorC), StaleGrants, FixedGrants)
          \o RpcGrants \o <<NL>>
          \o Piece(AnchorC, AnchorD) \o OwnerHeader \o sections["owner_changes"]
          \o AdditionalOwners \o BlankLine
          \o Piece(AnchorD, Len(initial_schema))
     /\ Piece(0, AnchorA) \o Piece(AnchorA, AnchorB) \o Piece(AnchorB, AnchorC)
          \o Piece(AnchorC, AnchorD) \o Piece(AnchorD, Len(initial_schema))
        = initial_schema

\* the anchors in order, every section extracted and different from the others
C3_Witness ==
  /\ pc = "assembled"
  /\ AnchorsInOrder
  /\ \A n \in SectionNames : sections[n] # <<>>
  /\ \A n, m \in SectionNames : n # m => sections[n] # sections[m]
  /\ Len(Draft) > Len(initial_schema)

\* the maximal runs of equal tokens of a text, as <<token, length>> pairs
RECURSIVE RunsFrom(_, _)
RunsFrom(s, k) ==
  IF k > Len(s) THEN <<>>
  ELSE LET e == CHOOSE j \in k..Len(s) :
                  /\ \A i \in k..j : s[i] = s[k]
                  /\ (j = Len(s) \/ s[j + 1] # s[k])
       IN  <<[t |-> s[k], n |-> e - k + 1]>> \o RunsFrom(s, e + 1)

Runs(s) == RunsFrom(s, 1)

\* C6: the text written has no four newlines in a row; it is the draft with
\* every maximal run of four or more newlines cut to three and nothing else changed.
C6_NewlineRunsCollapsed ==
  (pc \in {"cleaned", "written"}) =>
     LET rd == Runs(Draft)
         ro == Runs(output)
     IN  /\ \A i \in 1..Len(ro) : ro[i].t = NL => ro[i].n <= 3
         /\ Len(ro) = Len(rd)
         /\ \A i \in 1..Len(rd) :
              /\ ro[i].t = rd[i].t
              /\ ro[i].n = IF rd[i].t = NL /\ rd[i].n >= 4 THEN 3 ELSE rd[i].n
         /\ pc = "written" => schema_file = output

\* a run of five or more newlines that exists only where segments meet
C6_Witness ==
  /\ pc = "written"
  /\ \E i \in 1..Len(Runs(Draft)) : Runs(Draft)[i].t = NL /\ Runs(Draft)[i].n >= 5
  /\ \A k \in 1..Len(merged) : \A i \in 1..Len(Runs(merged[k])) :
       Runs(merged[k])[i].t = NL => Runs(merged[k])[i].n < 4
  /\ schema_file # Draft

\* the text without its last token, and its last token (both empty for the
\* empty text)
AllButLast(s) == SubSeq(s, 1, Len(s) - 1)
LastOf(s) == IF s = <<>> THEN <<>> ELSE <<s[Len(s)]>>

\* an offset with -1 read as the last position
Wrapped(k) ==
  IF k # -1 THEN k
  ELSE IF Len(initial_schema) = 0 THEN 0 ELSE Len(initial_schema) - 1

\* C7: the assembly goes through whichever anchors are absent; an absent anchor
\* acts as the offset -1 (the last position) in the slices that use it, and the
\* result is written.
C7_AbsentAnchorsWrapAround ==
  /\ pc \in {"assembled", "cleaned", "written"} =>
       LET tail == Piece(Wrapped(AnchorC), Len(initial_schema))
           d == Find(tail, ResetAll)
       IN  /\ Len(merged) = 23
           /\ merged[1] = Piece(0, Wrapped(AnchorA))
           /\ merged[6] = Piece(Wrapped(AnchorA), Wrapped(AnchorB))
           /\ merged[15] = Replace(Piece(Wrapped(AnchorB), Wrapped(AnchorC)),
                                   StaleGrants, FixedGrants)
           /\ merged[18] = IF d = -1 THEN AllButLast(tail) ELSE SubSeq(tail, 1, d)
           /\ merged[23] = IF d = -1 THEN LastOf(tail) ELSE SubSeq(tail, d + 1, Len(tail))
           /\ merged[19] \o merged[20] \o merged[21]
                = OwnerHeader \o sections["owner_changes"] \o AdditionalOwners
  /\ pc = "written" => schema_file = CollapseNewlines(Draft)

\* anchor C is found, no RESET ALL; follows it, and the ownership block sits
\* before the last token of the tail, in a file that was written
C7_Witness ==
  /\ pc = "written"
  /\ AnchorC # -1
  /\ AnchorD = -1
  /\ AnchorA = -1
  /\ Len(merged[18]) >= 1
  /\ merged[18] \o merged[23] = Piece(AnchorC, Len(initial_schema))
  /\ Len(merged[23]) = 1
  /\ merged[1] = AllButLast(initial_schema)

\* C9 as stated: with anchor C in the filtered base and a RESET ALL; after it,
\* the ownership block ends right before a RESET ALL; (only newlines between)
\* and no RESET ALL; of the base follows that one.
C9_BlockBeforeFinalReset ==
  (pc = "assembled" /\ AnchorC # -1 /\ AnchorD # -1) =>
     /\ merged[21] = AdditionalOwners
     /\ \A k \in 1..Len(merged[22]) : merged[22][k] = NL
     /\ StartsWith(merged[23], ResetAll)
     /\ ~Contains(SubSeq(merged[23], Len(ResetAll) + 1, Len(merged[23])), ResetAll)

\* ------------------------------------ the extractor applied to bounded overlays
\* The lines the overlays are made of.  A line holds one marker, or other
\* text between two transaction statements.  Each set holds both markers of two
\* range sections and the start marker of a third one.
OtherText == <<"BEGIN;", "x", "COMMIT;">>
OwnerStart == OwnerStartA \o OwnerStartB
OwnerEndLine == OwnerEnd \o OwnerStartB

OverlayLineSets ==
  { {RoleStart, AlterRoleBypass, RevokeExecStart, RevokeExecEnd, RpcStart,
     RevokeCreate, OtherText},
    {RpcStart, RpcEnd, IndexStart, IndexEnd, OwnerStart, RevokeCreate, OtherText},
    {OwnerStart, OwnerEndLine, RoleStart, AlterRoleBypass, IndexStart,
     RevokeCreate, OtherText} }

\* the overlay is any text of at most MaxOverlayLines such lines
InitExtract ==
  /\ pc = "filtered"
  /\ \E K \in OverlayLineSets : \E n \in 0..MaxOverlayLines : \E ls \in [1..n -> K] :
       microfixes_file = Join(ls)
  /\ schema_file = <<>>
  /\ initial_schema = <<>>
  /\ sections = EmptySections
  /\ merged = <<>>
  /\ output = <<>>
  /\ runs = 1
  /\ original_schema = <<>>

NextExtract == MainExtract

SpecExtract == InitExtract /\ [][NextExtract]_vars

\* ---------------------------------------------- properties of the extractor
RawLines == Split(microfixes_file)
CleanLines == Split(StripTransaction(microfixes_file))

StartLinesOf(name, ls) == {k \in 1..Len(ls) : IsStart(name, ls[k])}
EndLinesOf(name, ls) == {k \in 1..Len(ls) : IsEnd(name, ls[k])}
RevokeCreateLinesOf(ls) == {k \in 1..Len(ls) : Contains(ls[k], RevokeCreate)}
FirstOf(S) == CHOOSE m \in S : \A k \in S : m <= k

\* where the markers of the range sections are: per section the set of its
\* start lines and the set of its end lines
MarkerMap(ls) ==
  [name \in RangeSections |-> [s |-> StartLinesOf(name, ls), e |-> EndLinesOf(name, ls)]]

\* each start marker, each end marker and the revoke_create marker on at most one line
AtMostOnce(ls, mm) ==
  /\ \A name \in RangeSections :
       Cardinality(mm[name].s) <= 1 /\ Cardinality(mm[name].e) <= 1
  /\ Cardinality(RevokeCreateLinesOf(ls)) <= 1

\* the section has a start line and an end line that is not before it
HasPair(mm, name) ==
  /\ mm[name].s # {}
  /\ mm[name].e # {}
  /\ FirstOf(mm[name].s) <= FirstOf(mm[name].e)

PairText(ls, mm, name) == Join(SubSeq(ls, FirstOf(mm[name].s), FirstOf(mm[name].e)))

\* the line ranges of two different sections share no line
NoInterleave(mm) ==
  \A n, m \in RangeSections :
    (n # m /\ HasPair(mm, n) /\ HasPair(mm, m)) =>
       \/ FirstOf(mm[n].e) < FirstOf(mm[m].s)
       \/ FirstOf(mm[m].e) < FirstOf(mm[n].s)

RevokeCreateAsClaimed(ls) ==
  \A r \in RevokeCreateLinesOf(ls) : sections["revoke_create"] = ls[r]

\* C2 as stated: with every marker at most once and the pairs of different
\* sections not interleaved or nested, each range section is the overlay's own
\* lines from its start line through its end line, verbatim, and revoke_create
\* is the overlay's line holding its marker.
C2_VerbatimOverlayLines ==
  pc = "extracted" =>
    LET ls == RawLines
        mm == MarkerMap(ls)
    IN  (AtMostOnce(ls, mm) /\ NoInterleave(mm)) =>
          /\ \A name \in RangeSections :
               HasPair(mm, name) => sections[name] = PairText(ls, mm, name)
          /\ RevokeCreateAsClaimed(ls)

\* the section's end line is after its start line and no other range section
\* starts on a line from the one through the other
CleanPair(mm, name) ==
  /\ HasPair(mm, name)
  /\ FirstOf(mm[name].s) < FirstOf(mm[name].e)
  /\ \A other \in RangeSections \ {name} :
       \A k \in mm[other].s : k < FirstOf(mm[name].s) \/ k > FirstOf(mm[name].e)

\* C2 amended: the same of the overlay's lines after every BEGIN; and COMMIT;
\* has been deleted from them, for each range section whose end marker is on a
\* later line than its start marker with no other range section starting on a
\* line from the one through the other.
C2_LinesAfterTransactionStrip ==
  pc = "extracted" =>
    LET ls == CleanLines
        mm == MarkerMap(ls)
    IN  AtMostOnce(ls, mm) =>
          /\ \A name \in RangeSections :
               CleanPair(mm, name) => sections[name] = PairText(ls, mm, name)
          /\ RevokeCreateAsClaimed(ls)

\* a section is extracted around a line that held BEGIN; and lost it
C2_Witness ==
  /\ pc = "extracted"
  /\ LET ls == CleanLines
         mm == MarkerMap(ls)
     IN  /\ AtMostOnce(ls, mm)
         /\ \E name \in RangeSections :
              /\ CleanPair(mm, name)
              /\ sections[name] = PairText(ls, mm, name)
              /\ PairText(ls, mm, name) # PairText(RawLines, mm, name)
              /\ FirstOf(mm[name].e) > FirstOf(mm[name].s) + 1

\* C4: a range section whose start marker occurs in the overlay and whose end
\* marker never occurs is returned as the empty string.
C4_UnterminatedSectionEmpty ==
  pc = "extracted" =>
    LET mm == MarkerMap(RawLines)
    IN  \A name \in RangeSections :
          (mm[name].s # {} /\ mm[name].e = {}) => sections[name] = <<>>

\* the scan ends while still collecting at least two lines of a section whose
\* end marker is nowhere in the overlay
C4_Witness ==
  /\ pc = "extracted"
  /\ LET st == Scan(CleanLines, Len(CleanLines))
     IN  /\ st.cur \in RangeSections
         /\ Len(st.buf) >= 2
         /\ EndLinesOf(st.cur, RawLines) = {}
         /\ sections[st.cur] = <<>>

\* the markers a line holds
MarkersIn(line) ==
  {<<"start", n>> : n \in {m \in RangeSections : IsStart(m, line)}}
  \cup {<<"end", n>> : n \in {m \in RangeSections : IsEnd(m, line)}}
  \cup (IF Contains(line, RevokeCreate) THEN {<<"only", "revoke_create">>} ELSE {})

OwnLine(ls) == \A k \in 1..Len(ls) : Cardinality(MarkersIn(ls[k])) <= 1

RECURSIVE ScanTrace(_, _)
\* the scan states before the first line and after each of the first k lines
ScanTrace(ls, k) ==
  IF k = 0 THEN <<ScanInit>>
  ELSE LET t == ScanTrace(ls, k - 1) IN Append(t, ExtractStep(t[k], ls[k]))

\* a revoke_create line met during collection is buffered and nothing else
RevokeCreateBuffered(ls, tr) ==
  \A k \in RevokeCreateLinesOf(ls) :
     tr[k].cur # None =>
        /\ tr[k + 1].cur = tr[k].cur
        /\ tr[k + 1].buf = Append(tr[k].buf, ls[k])

\* the lines on which a range section starts while another one is collected
PreemptionLines(ls, tr) ==
  {k \in 1..Len(ls) :
     /\ tr[k].cur \in RangeSections
     /\ \E y \in RangeSections \ {tr[k].cur} : IsStart(y, ls[k])}

\* C10 as stated: when Y starts while X is collected, X ends empty and Y is the
\* lines from its start line through its end line.
C10_PreemptedEmptyPreemptorWhole ==
  pc = "extracted" =>
    LET ls == CleanLines
        mm == MarkerMap(ls)
        tr == ScanTrace(ls, Len(ls))
    IN  (OwnLine(ls) /\ AtMostOnce(ls, mm)) =>
          /\ \A k \in PreemptionLines(ls, tr) :
               /\ sections[tr[k].cur] = <<>>
               /\ \A y \in RangeSections \ {tr[k].cur} :
                    IsStart(y, ls[k]) =>
                      \A e \in mm[y].e :
                        e > k => sections[y] = Join(SubSeq(ls, k, e))
          /\ RevokeCreateBuffered(ls, tr)

\* C10 amended: Y is the lines from its start line through its end line when
\* no further range section starts between the two.
C10_PreemptorWholeUnlessPreempted ==
  pc = "extracted" =>
    LET ls == CleanLines
        mm == MarkerMap(ls)
        tr == ScanTrace(ls, Len(ls))
    IN  (OwnLine(ls) /\ AtMostOnce(ls, mm)) =>
          /\ \A k \in PreemptionLines(ls, tr) :
               /\ sections[tr[k].cur] = <<>>
               /\ \A y \in RangeSections \ {tr[k].cur} :
                    IsStart(y, ls[k]) =>
                      \A e \in mm[y].e :
                        (e > k /\ \A z \in RangeSections : \A j \in mm[z].s : j <= k \/ j > e)
                           => sections[y] = Join(SubSeq(ls, k, e))
          /\ RevokeCreateBuffered(ls, tr)

\* X starts, Y starts, X's end marker comes inside Y, Y ends: X empty, Y whole
C10_Witness ==
  /\ pc = "extracted"
  /\ LET ls == CleanLines
         mm == MarkerMap(ls)
         tr == ScanTrace(ls, Len(ls))
     IN  /\ OwnLine(ls) /\ AtMostOnce(ls, mm)
         /\ \E k \in PreemptionLines(ls, tr) :
              \E y \in RangeSections \ {tr[k].cur} :
                /\ IsStart(y, ls[k])
                /\ \E ex \in mm[tr[k].cur].e, ey \in mm[y].e :
                     /\ k < ex /\ ex < ey
                     /\ sections[y] = Join(SubSeq(ls, k, ey))
                /\ sections[tr[k].cur] = <<>>

\* ------------------------------------------- the filter on bounded schema files
\* The lines the schema files are made of: comment lines the filter tests for,
\* with and without leading blanks, the same literals in places where the
\* tests do not look, other text and the anchors.
FilterLineKinds ==
  { Removed \o <<"x">>,
    <<SP>> \o Removed,
    <<"x">> \o Removed,
    <<SP, SP>> \o RemoveDefault \o <<"s">>,
    <<"x">> \o FixNote,
    FixNote \o <<"x">> \o Refunded,
    <<"x">>,
    TypeAnchor,
    GrantPostgres,
    AlterDefault,
    ResetAll }

\* an overlay like FullOverlay with the given lines inside the public_rpcs
\* section and inside the owner_changes section
OverlayWith(rpcLines, ownerLines) ==
  Join(<<RevokeCreate \o <<";">>, RoleStart, AlterRoleBypass, RevokeExecStart,
         RevokeExecEnd, RpcStart>>
       \o rpcLines
       \o <<RpcEnd, IndexStart, IndexEnd, OwnerStartA \o OwnerStartB>>
       \o ownerLines
       \o <<OwnerEnd \o OwnerStartB>>)

\* a comment line of the kind the filter removes, inside a section
NotedOverlay == OverlayWith(<<Removed \o <<"x">>>>, <<>>)

\* line k of the schema file ends with the token k, so that a line of the
\* file is told from any other line
InitFilter ==
  /\ pc = "start"
  /\ \E n \in 0..MaxBaseLines : \E ks \in [1..n -> FilterLineKinds] :
       schema_file = Join([k \in 1..n |-> ks[k] \o <<ToString(k)>>])
  /\ microfixes_file = NotedOverlay
  /\ original_schema = schema_file
  /\ initial_schema = <<>>
  /\ sections = EmptySections
  /\ merged = <<>>
  /\ output = <<>>
  /\ runs = 1

NextFilter == NextMain

SpecFilter == InitFilter /\ [][NextFilter]_vars

\* ------------------------------------------------- properties of the filter
\* the line without the blanks at its two ends
RECURSIVE Trimmed(_)
Trimmed(line) ==
  IF line = <<>> THEN <<>>
  ELSE IF line[1] = SP THEN Trimmed(Tail(line))
  ELSE IF line[Len(line)] = SP THEN Trimmed(SubSeq(line, 1, Len(line) - 1))
  ELSE line

\* a line the filter is said to drop
Historical(line) ==
  \/ (Trimmed(line) # <<>> /\ Trimmed(line)[1] \in {Removed[1], RemoveDefault[1]})
  \/ ((\E k \in 1..Len(line) : line[k] = FixNote[1])
      /\ ~(\E k \in 1..Len(line) : line[k] = Refunded[1]))

RECURSIVE WithoutHistorical(_)
WithoutHistorical(ls) ==
  IF ls = <<>> THEN <<>>
  ELSE (IF Historical(Head(ls)) THEN <<>> ELSE <<Head(ls)>>) \o WithoutHistorical(Tail(ls))

Rerun ==
  /\ pc = "written"
  /\ runs < MaxRuns
  /\ runs' = runs + 1
  /\ pc' = "start"
  /\ initial_schema' = <<>>
  /\ sections' = EmptySections
  /\ merged' = <<>>
  /\ output' = <<>>
  /\ UNCHANGED <<schema_file, microfixes_file, original_schema>>

NextRerun == NextMain \/ Rerun

\* a schema with the four anchors in order
OrderedAnchors == Join(<<TypeAnchor, GrantPostgres, AlterDefault \o <<"x">>, ResetAll>>)

RerunChunks == BaseChunks \cup {OrderedAnchors}

\* three empty lines in a row inside a section
SparseOverlay == OverlayWith(<< <<>>, <<>>, <<>> >>, <<>>)

\* an anchor literal inside a section
AnchoredOverlay == OverlayWith(<<>>, <<ResetAll>>)

RerunOverlays == { FullOverlay, NotedOverlay, SparseOverlay, AnchoredOverlay }

InitRerun ==
  /\ pc = "start"
  /\ \E n \in 0..MaxRerunChunks : \E cs \in [1..n -> RerunChunks] :
       schema_file = Concat(cs)
  /\ microfixes_file \in RerunOverlays
  /\ original_schema = schema_file
  /\ initial_schema = <<>>
  /\ sections = EmptySections
  /\ merged = <<>>
  /\ output = <<>>
  /\ runs = 1

SpecRerun == InitRerun /\ [][NextRerun]_vars

\* ------------------------------------------------ properties of the rerun
\* the number of places of the text s where the text p stands
CountOcc(s, p) ==
  Cardinality({k \in 0..(Len(s) - Len(p)) : SubSeq(s, k + 1, k + Len(p)) = p})

\* the three header comments, the execute grants, the ownership header and the
\* nine ownership statements
FixedBlocks ==
  { HardeningHeader, RevokeHeader, IndexHeader, RpcGrants, OwnerHeader, AdditionalOwners }

\* the four anchors are found in order in the filtered schema of the first run
BaseAnchorsInOrder ==
  LET base == RemoveVerboseComments(original_schema)
      a == Find(base, TypeAnchor)
      b == Find(base, GrantPostgres)
      c == Find(base, AlterDefault)
  IN  /\ 0 <= a /\ a < b /\ b < c
      /\ Find(SubSeq(base, c + 1, Len(base)), ResetAll) > 0

\* every section has been extracted
AllExtracted == \A n \in SectionNames : sections[n] # <<>>

\* the second run has produced its text, the schema file still holds the
\* text of the first run
SecondRunDone == pc = "cleaned" /\ runs = 2 /\ BaseAnchorsInOrder /\ AllExtracted

Fragile(text) ==
  \/ \E k \in 1..Len(Split(text)) : Historical(Split(text)[k])
  \/ CountOcc(text, <<NL, NL, NL, NL>>) > 0
  \/ \E a \in {TypeAnchor, GrantPostgres, AlterDefault, ResetAll} : CountOcc(text, a) > 0

====
